---- MODULE Spec2Model ----
(***************************************************************************)
(* Verification model of jcwons/biodiversity-explorer.                     *)
(*                                                                         *)
(*   SpecSample    get_gbif_sample (metrics/gbif_metrics.py): the paging   *)
(*                 loop over the occurrence search API.                    *)
(*   SpecRun       the "Run Analysis" handler of streamlit_app.py: AOI     *)
(*                 parsing, the MAX_AOI_KM2 area check, the map, the       *)
(*                 land-cover and occurrence columns, the NDVI rating      *)
(*                 summary, and the handler's single try/except.           *)
(*   SpecLandcover the histogram indices of metrics/landcover_metrics.py.  *)
(*   SpecBio       get_biodiversity_indices (metrics/gbif_metrics.py).       *)
(*   SpecEe        init_ee / is_ee_initialized (metrics/gee_utils.py).       *)
(*   SpecPx        the per-pixel rating rule of get_ndvi_rating_map.         *)
(***************************************************************************)
EXTENDS Integers, Sequences, FiniteSets, TLC

VARIABLES
    \* ---- get_gbif_sample -------------------------------------------------
    n_records,      \* argument n_records
    pages,          \* local pages (line 27)
    i,              \* loop variable of "for i in range(pages)"
    occurrences,    \* local list occurrences: sequence of record ids
    requests,       \* log of the offsets of the page requests sent so far
    page_lens,      \* log of len(data["results"]) of every page received
    spc,            \* position: "loop", "returned", "failed"
    sample,         \* the returned list (<< >> until the function returns)
    \* ---- Run Analysis handler --------------------------------------------
    pc,             \* position in the handler
    geojson_input,  \* st.session_state["geojson_input"]: the drawn AOI
    aoi_ee,         \* local aoi_ee
    area_km2,       \* local area_km2, kept as the area in grid cells
    map_aoi,        \* AOI the displayed map is fitted and clipped to
    used_aoi,       \* metric group -> AOI its remote computation was given
    displayed,      \* metric groups whose results have been rendered
    failed_at,      \* step whose call raised ("none" when nothing raised)
    scale_adjusted, \* local scale_adjusted
    ndvi_rating,    \* local ndvi_rating (the rating histogram)
    rating_out,     \* bad_vegetation_perc / bad_vegetation_ha as rendered
    \* ---- land-cover indices ----------------------------------------------
    counts,         \* the class histogram handed to the index functions
    lc_metrics,     \* the dict returned by get_landcover_metrics
    \* ---- get_biodiversity_indices ----------------------------------------
    bio_sample,     \* argument occurrences: a sequence of record dicts
    bio_metrics,    \* the dict returned by get_biodiversity_indices
    \* ---- metrics/gee_utils.py --------------------------------------------
    _initialized,   \* module global _initialized
    ee_log,         \* log of the calls made to the module, with their outcome
    \* ---- get_ndvi_rating_map: one pixel ----------------------------------
    px,             \* the pixel: NDVI, the four percentiles, the forest mask
    px_rating       \* the pixel of the image get_ndvi_rating_map returns

sample_vars == <<n_records, pages, i, occurrences, requests, page_lens, spc, sample>>
run_vars == <<pc, geojson_input, aoi_ee, area_km2, map_aoi, used_aoi, displayed,
              failed_at, scale_adjusted, ndvi_rating, rating_out>>
lc_vars == <<counts, lc_metrics>>
bio_vars == <<bio_sample, bio_metrics>>
ee_vars == <<_initialized, ee_log>>
px_vars == <<px, px_rating>>
vars == <<sample_vars, run_vars, lc_vars, bio_vars, ee_vars, px_vars>>

\* ===========================================================================
\* Generic helpers
\* ===========================================================================

Min(a, b) == IF a <= b THEN a ELSE b

Max(a, b) == IF a >= b THEN a ELSE b

RECURSIVE SumSeq(_)
SumSeq(s) == IF s = << >> THEN 0 ELSE Head(s) + SumSeq(Tail(s))

\* s[:n] of a Python list, n >= 0
Slice(s, n) == SubSeq(s, 1, Min(Len(s), n))

\* Values of the variables of a component that is not running.
SampleIdle ==
    /\ n_records = 0 /\ pages = 0 /\ i = 0 /\ occurrences = << >>
    /\ requests = << >> /\ page_lens = << >> /\ spc = "idle" /\ sample = << >>

\* ===========================================================================
\* get_gbif_sample  (metrics/gbif_metrics.py, lines 21-55)
\* ===========================================================================

per_page == 300

\* Largest n_records explored, in whole pages.
MaxRecordPages == 2

\* n_records as passed by the caller: min(occ_total, 10000) >= 0.
RecordCaps == 0..(MaxRecordPages * per_page + 1)

\* len(data["results"]) of a response to a request with limit = per_page.
PageLens == {0, 1, per_page - 1, per_page}

\* data["results"] of the page at `offset` holding `len` records: the records
\* are named by their position in the data source's result list.
PageResults(offset, len) == [k \in 1..len |-> offset + k]

\* line 27
PagesFor(n) == (n \div per_page) + 1

\* A return that forgets the truncation of line 55.
ReturnSampleWhole(occ, n) == occ

\* line 55
ReturnSample(occ, n) == Slice(occ, n)

SampleInit ==
    /\ n_records \in RecordCaps
    /\ pages = PagesFor(n_records)
    /\ i = 0
    /\ occurrences = << >>
    /\ requests = << >>
    /\ page_lens = << >>
    /\ spc = "loop"
    /\ sample = << >>

\* One iteration of the for loop (lines 39-53) whose request and decoding
\* succeed; when the loop ends with it (break, or range exhausted) the
\* function returns occurrences[:n_records] (line 55).
FetchPage ==
    /\ spc = "loop"
    /\ i < pages
    /\ \E len \in PageLens :
         LET offset == i * per_page
             occ == occurrences \o PageResults(offset, len)
             stop == len < per_page \/ i + 1 >= pages
         IN  /\ requests' = Append(requests, offset)
             /\ page_lens' = Append(page_lens, len)
             /\ occurrences' = occ
             /\ i' = IF stop THEN i ELSE i + 1
             /\ spc' = IF stop THEN "returned" ELSE "loop"
             /\ sample' = IF stop THEN ReturnSample(occ, n_records) ELSE sample
    /\ UNCHANGED <<n_records, pages, run_vars, lc_vars, bio_vars, ee_vars, px_vars>>

\* A loop that swallows the exception and tries the page again.
RetryPosition == "loop"

\* lines 49-51 sit in no try block: the exception leaves the function
FailedPosition == "failed"

\* One iteration whose requests.get, r.json() or data["results"] raises
\* (lines 49-51): the exception leaves the function, nothing is returned.
FetchFail ==
    /\ spc = "loop"
    /\ i < pages
    /\ requests' = Append(requests, i * per_page)
    /\ spc' = FailedPosition
    /\ UNCHANGED <<n_records, pages, i, occurrences, page_lens, sample, run_vars, lc_vars, bio_vars, ee_vars, px_vars>>

SampleNext == FetchPage \/ FetchFail


\* ===========================================================================
\* Geometry of the AOI
\*
\* An AOI is the rectangle the user draws ("Click the square icon to draw a
\* rectangle", streamlit_app.py line 140), on a planar grid whose cell is one
\* land-cover pixel of GridM metres; lengths are in cells, areas in cells^2.
\* ===========================================================================

GridM == 10

CellsPerKm == 1000 \div GridM

CellsPerKm2 == CellsPerKm * CellsPerKm

NoAOI == [xmin |-> 0, xmax |-> 0, ymin |-> 0, ymax |-> 0]

Rect(cx, cy, hw, hh) == [xmin |-> cx - hw, xmax |-> cx + hw, ymin |-> cy - hh, ymax |-> cy + hh]

Width(a) == a.xmax - a.xmin

Height(a) == a.ymax - a.ymin

\* ee.Geometry.area(), in cells^2
Area(a) == Width(a) * Height(a)

\* ee.Geometry.centroid()
Centroid(a) == <<(a.xmin + a.xmax) \div 2, (a.ymin + a.ymax) \div 2>>

\* point.buffer(r).bounds(): the bounding box of the disc of radius r
BufferBounds(c, r) == Rect(c[1], c[2], r, r)

\* geometry.buffer(r).bounds() of a rectangle: every side moves out by r
BufferRectBounds(a, r) == [xmin |-> a.xmin - r, xmax |-> a.xmax + r, ymin |-> a.ymin - r, ymax |-> a.ymax + r]

IsSquare(a) == Width(a) = Height(a)

RECURSIVE ISqrtIn(_, _, _)
ISqrtIn(n, lo, hi) ==
    IF lo >= hi THEN lo
    ELSE LET mid == (lo + hi + 1) \div 2
         IN  IF mid * mid <= n THEN ISqrtIn(n, mid, hi) ELSE ISqrtIn(n, lo, mid - 1)

\* x ** 0.5, rounded down to a whole cell
ISqrt(n) == ISqrtIn(n, 0, Min(n, 46340))

\* Largest half extent of a drawn AOI, in km.
MaxHalfKm == 13

HalfExtents == {k * CellsPerKm : k \in 1..MaxHalfKm}

Centres == {<<0, 0>>, <<3 * CellsPerKm, -2 * CellsPerKm>>}

DrawnAOIs == {Rect(c[1], c[2], hw, hh) : c \in Centres, hw \in HalfExtents, hh \in HalfExtents}

\* ===========================================================================
\* Run Analysis: the area check  (streamlit_app.py, lines 184-191)
\* ===========================================================================

MAX_AOI_KM2 == 500

\* area_km2 > k, with area_km2 = area / 1e6 kept in cells^2
AreaOver(area, k) == area > k * CellsPerKm2

\* line 190: side_m = (MAX_AOI_KM2 * 1e6) ** 0.5, in cells
side_m == ISqrt(MAX_AOI_KM2 * CellsPerKm2)

\* A governor that forgets the halving of line 191: buffer(side_m).
BufferRadiusWhole == side_m

\* line 191: the buffer radius side_m / 2
BufferRadius == side_m \div 2

\* A governor that buffers the AOI itself instead of its centroid.
EnforceAreaLimitNoCentroid(aoi) ==
    IF AreaOver(Area(aoi), MAX_AOI_KM2) THEN BufferRectBounds(aoi, BufferRadius) ELSE aoi

\* lines 186-191: the value of aoi_ee after the area check
EnforceAreaLimit(aoi) ==
    IF AreaOver(Area(aoi), MAX_AOI_KM2) THEN BufferBounds(Centroid(aoi), BufferRadius) ELSE aoi

\* ===========================================================================
\* Run Analysis: the NDVI rating summary  (streamlit_app.py, lines 370-395)
\* ===========================================================================

\* A real number num / den (Python floats are kept exact).
Rat(n, d) == [num |-> n, den |-> d]

RatEq(a, b) == a.num * b.den = b.num * a.den

RatAdd(a, b) == Rat(a.num * b.den + b.num * a.den, a.den * b.den)

\* d.get(k, default) of a Python dict
Get(d, k, default) == IF k \in DOMAIN d THEN d[k] ELSE default

RECURSIVE SumValues(_)
\* sum(d.values())
SumValues(d) ==
    IF DOMAIN d = {} THEN 0
    ELSE LET k == CHOOSE x \in DOMAIN d : TRUE
         IN  d[k] + SumValues([x \in DOMAIN d \ {k} |-> d[x]])

\* Keys of the histogram of the rating image: the values of the cascade
\* of get_ndvi_rating_map, as strings.
RatingKeys == {"1", "2", "3", "4", "5"}

\* Largest pixel count of one rating in the enumerated histograms.
MaxPix == 1

\* The scenario {1:10, 2:10, 3:20, 4:30, 5:30}.
ScenarioRatings == [k \in RatingKeys |-> CASE k = "1" -> 10 [] k = "2" -> 10 [] k = "3" -> 20 [] OTHER -> 30]

\* Histograms get_ndvi_rating_summary can return: any subset of the ratings
\* present, a missing rating meaning no pixel.
RatingHists == UNION {[K -> 0..MaxPix] : K \in SUBSET RatingKeys} \cup {ScenarioRatings}

\* ndvi_rating before line 379 has run
NoHist == [k \in {"unset"} |-> 0]

\* A selection whose two middle steps are exchanged.
ScaleForSwapped(area) ==
    IF AreaOver(area, 100) THEN 100
    ELSE IF AreaOver(area, 50) THEN 20
    ELSE IF AreaOver(area, 10) THEN 30
    ELSE 10

\* lines 370-377 (area is area_km2 in cells^2)
ScaleFor(area) ==
    IF AreaOver(area, 100) THEN 100
    ELSE IF AreaOver(area, 50) THEN 30
    ELSE IF AreaOver(area, 10) THEN 20
    ELSE 10

\* line 380
TotalPix(h) == SumValues(h)

\* lines 381-385
GoodVegetation(h) == Get(h, "3", 0) + Get(h, "4", 0) + Get(h, "5", 0)

\* A summary that forgets rating 2 among the degraded ratings.
BadVegetationOnly1(h) == Get(h, "1", 0)

\* lines 387-390
BadVegetation(h) == Get(h, "1", 0) + Get(h, "2", 0)

\* line 391: bad_vegetation / total_pix * 100 raises ZeroDivisionError when
\* total_pix = 0
PercRaises(h) == TotalPix(h) = 0

\* line 391, total_pix # 0
BadVegetationPerc(h) == Rat(BadVegetation(h) * 100, TotalPix(h))

\* line 392
BadVegetationHa(h, scale) == Rat(BadVegetation(h) * scale * scale, 10000)

NoRating == [total_pix |-> 0, good_vegetation |-> 0, bad_vegetation |-> 0,
             bad_vegetation_perc |-> Rat(0, 1), bad_vegetation_ha |-> Rat(0, 1)]

\* lines 380-392, total_pix # 0
RatingSummary(h, scale) ==
    [total_pix |-> TotalPix(h),
     good_vegetation |-> GoodVegetation(h),
     bad_vegetation |-> BadVegetation(h),
     bad_vegetation_perc |-> BadVegetationPerc(h),
     bad_vegetation_ha |-> BadVegetationHa(h, scale)]

\* ===========================================================================
\* Run Analysis handler  (streamlit_app.py, lines 180-398)
\* ===========================================================================

MetricGroups == {"landcover", "occurrence", "rating"}

NoUse == [landcover_pre |-> NoAOI, ndvi_map |-> NoAOI, landcover |-> NoAOI,
          occ_count |-> NoAOI, occ_sample |-> NoAOI, rating |-> NoAOI]

RunIdle ==
    /\ pc = "idle" /\ geojson_input = NoAOI /\ aoi_ee = NoAOI /\ area_km2 = 0
    /\ map_aoi = NoAOI /\ used_aoi = NoUse /\ displayed = {} /\ failed_at = "none"
    /\ scale_adjusted = 0 /\ ndvi_rating = NoHist /\ rating_out = NoRating

\* The button has been pressed with a drawn AOI in the session state.
RunInit ==
    /\ pc = "parse"
    /\ geojson_input \in DrawnAOIs
    /\ aoi_ee = NoAOI
    /\ area_km2 = 0
    /\ map_aoi = NoAOI
    /\ used_aoi = NoUse
    /\ displayed = {}
    /\ failed_at = "none"
    /\ scale_adjusted = 0
    /\ ndvi_rating = NoHist
    /\ rating_out = NoRating

\* lines 397-398: the handler's only except clause; the rest of the try
\* block is skipped.
Raise(step) ==
    /\ pc' = "error"
    /\ failed_at' = step
    /\ displayed' = displayed \cup {"error"}

\* lines 182-191: parse the AOI, fetch its area, apply the area check.
\* aoi_ee.area()...getInfo() is a remote call and may raise.
AreaCheck ==
    /\ pc = "parse"
    /\ \/ /\ aoi_ee' = EnforceAreaLimit(geojson_input)
          /\ area_km2' = Area(geojson_input)
          /\ pc' = "metrics"
          /\ UNCHANGED <<displayed, failed_at>>
       \/ /\ Raise("area")
          /\ aoi_ee' = geojson_input
          /\ UNCHANGED area_km2
    /\ UNCHANGED <<geojson_input, map_aoi, used_aoi, scale_adjusted, ndvi_rating, rating_out, sample_vars, lc_vars, bio_vars, ee_vars, px_vars>>

\* lines 200-201: get_landcover_metrics(aoi_ee) (remote, may raise) and the
\* lazily built ndvi_map = get_ndvi_rating_map(aoi_ee).
FirstMetrics ==
    /\ pc = "metrics"
    /\ \/ /\ used_aoi' = [used_aoi EXCEPT !.landcover_pre = aoi_ee, !.ndvi_map = aoi_ee]
          /\ pc' = "map"
          /\ UNCHANGED <<displayed, failed_at>>
       \/ /\ Raise("landcover")
          /\ used_aoi' = [used_aoi EXCEPT !.landcover_pre = aoi_ee]
    /\ UNCHANGED <<geojson_input, aoi_ee, area_km2, map_aoi, scale_adjusted, ndvi_rating, rating_out, sample_vars, lc_vars, bio_vars, ee_vars, px_vars>>

\* lines 204-256: the map is fitted to aoi_ee.bounds() (remote, may raise),
\* the layers are clipped to aoi_ee, the map is shown.
ShowMap ==
    /\ pc = "map"
    /\ \/ /\ map_aoi' = aoi_ee
          /\ displayed' = displayed \cup {"map"}
          /\ pc' = "col1"
          /\ UNCHANGED failed_at
       \/ /\ Raise("map")
          /\ UNCHANGED map_aoi
    /\ UNCHANGED <<geojson_input, aoi_ee, area_km2, used_aoi, scale_adjusted, ndvi_rating, rating_out, sample_vars, lc_vars, bio_vars, ee_vars, px_vars>>

\* lines 266-306: aoi_ee is parsed again from geojson_input (line 267), the
\* land-cover metrics are computed on it (remote, may raise) and shown.
Col1 ==
    /\ pc = "col1"
    /\ aoi_ee' = geojson_input
    /\ used_aoi' = [used_aoi EXCEPT !.landcover = aoi_ee']
    /\ \/ /\ displayed' = displayed \cup {"landcover"}
          /\ pc' = "col2"
          /\ UNCHANGED failed_at
       \/ Raise("landcover")
    /\ UNCHANGED <<geojson_input, area_km2, map_aoi, scale_adjusted, ndvi_rating, rating_out, sample_vars, lc_vars, bio_vars, ee_vars, px_vars>>

\* lines 310-349: the occurrence count, then the sample and its indices;
\* either request may raise.
Col2 ==
    /\ pc = "col2"
    /\ \/ /\ used_aoi' = [used_aoi EXCEPT !.occ_count = aoi_ee, !.occ_sample = aoi_ee]
          /\ displayed' = displayed \cup {"occurrence"}
          /\ pc' = "rating"
          /\ UNCHANGED failed_at
       \/ /\ used_aoi' = [used_aoi EXCEPT !.occ_count = aoi_ee]
          /\ Raise("occurrence")
       \/ /\ used_aoi' = [used_aoi EXCEPT !.occ_count = aoi_ee, !.occ_sample = aoi_ee]
          /\ Raise("occurrence")
    /\ UNCHANGED <<geojson_input, aoi_ee, area_km2, map_aoi, scale_adjusted, ndvi_rating, rating_out, sample_vars, lc_vars, bio_vars, ee_vars, px_vars>>

\* lines 370-395: the scale, get_ndvi_rating_summary(ndvi_map, aoi_ee, scale)
\* (remote, may raise), the degraded share and area, the text.
Rating ==
    /\ pc = "rating"
    /\ scale_adjusted' = ScaleFor(area_km2)
    /\ used_aoi' = [used_aoi EXCEPT !.rating = aoi_ee]
    /\ \/ \E h \in RatingHists :
            /\ ndvi_rating' = h
            /\ IF PercRaises(h)
                 THEN /\ Raise("rating")
                      /\ UNCHANGED rating_out
                 ELSE /\ rating_out' = RatingSummary(h, scale_adjusted')
                      /\ displayed' = displayed \cup {"rating"}
                      /\ pc' = "done"
                      /\ UNCHANGED failed_at
       \/ /\ Raise("rating")
          /\ UNCHANGED <<ndvi_rating, rating_out>>
    /\ UNCHANGED <<geojson_input, aoi_ee, area_km2, map_aoi, sample_vars, lc_vars, bio_vars, ee_vars, px_vars>>

RunNext == AreaCheck \/ FirstMetrics \/ ShowMap \/ Col1 \/ Col2 \/ Rating

\* ===========================================================================
\* Land-cover indices  (metrics/landcover_metrics.py, lines 20-98)
\*
\* A histogram is the dict returned by reduceRegion, in iteration order: a
\* sequence of entries [cls |-> key string, count |-> pixels], keys distinct.
\* ===========================================================================

Digits == <<"0", "1", "2", "3", "4", "5", "6", "7", "8", "9">>

RECURSIVE Str(_)
\* str(n) of a non-negative int
Str(n) == IF n < 10 THEN Digits[n + 1] ELSE Str(n \div 10) \o Digits[(n % 10) + 1]

\* int(s) of a decimal string of a class code
IntOf(s) == CHOOSE n \in 0..255 : Str(n) = s

\* lines 20-32: the keys of landcover_classes
landcover_classes == {10, 20, 30, 40, 50, 60, 70, 80, 90, 95, 100}

\* A natural set that lost Shrubland.
natural_classes_short == <<10, 30, 90, 95, 100>>

\* line 56
natural_classes == <<10, 20, 30, 90, 95, 100>>

\* line 62
anthropogenic_classes == <<40, 50, 60, 70, 80>>

Range(s) == {s[k] : k \in 1..Len(s)}

Keys(h) == {h[k].cls : k \in 1..Len(h)}

\* counts.values()
Values(h) == [k \in 1..Len(h) |-> h[k].count]

\* counts.get(key, 0)
GetCount(h, key) ==
    IF key \in Keys(h) THEN (CHOOSE e \in Range(h) : e.cls = key).count ELSE 0

\* sum(counts.values())
Total(h) == SumSeq(Values(h))

\* Largest pixel count of one class in the enumerated histograms.
MaxCount == 2

\* Keys of the enumerated histograms: four legend classes of each habitat
\* set, and two codes outside the legend.
KeyOrder == <<"10", "20", "40", "50", "15", "80">>

Reverse(s) == [k \in 1..Len(s) |-> s[Len(s) + 1 - k]]

\* The entries of `order` that `pick` keeps (pick[k] = -1 drops key k).
RECURSIVE Entries(_, _)
Entries(order, pick) ==
    IF order = << >> THEN << >>
    ELSE LET rest == Entries(Tail(order), Tail(pick))
         IN  IF Head(pick) < 0 THEN rest
             ELSE <<[cls |-> Head(order), count |-> Head(pick)]>> \o rest

\* The scenario {10:700, 40:300}; 700, 300 and 1000 factor over 2, 3, 5, 7.
ScenarioCounts == <<[cls |-> "10", count |-> 700], [cls |-> "40", count |-> 300]>>

Histograms ==
    {Entries(order, pick) : order \in {KeyOrder, Reverse(KeyOrder)},
                            pick \in [1..Len(KeyOrder) -> -1..MaxCount]}
    \cup {ScenarioCounts}

\* ---- real numbers built from logarithms ----------------------------------
\* ln of a positive rational is kept as the vector of prime exponents of the
\* rational: ln(prod p^v[p]) = sum v[p] * ln(p), and the ln(p) are linearly
\* independent over the rationals, so two such numbers are equal exactly when
\* their vectors are.

MaxTotal == Len(KeyOrder) * (MaxCount + 1)

Primes == {p \in 2..Max(MaxTotal, 7) : \A d \in 2..(p - 1) : p % d # 0}

RECURSIVE Mult(_, _)
\* multiplicity of the prime p in n >= 1
Mult(p, n) == IF n % p # 0 THEN 0 ELSE 1 + Mult(p, n \div p)

\* k * ln(n)
LnTimes(k, n) == [p \in Primes |-> k * Mult(p, n)]

VecZero == [p \in Primes |-> 0]

VecSub(u, v) == [p \in Primes |-> u[p] - v[p]]

RECURSIVE SumCLnC(_)
\* sum of c * ln(c) over the counts c > 0 of a sequence
SumCLnC(cs) ==
    IF cs = << >> THEN VecZero
    ELSE LET r == SumCLnC(Tail(cs))
             c == Head(cs)
         IN  IF c > 0 THEN [p \in Primes |-> r[p] + c * Mult(p, c)] ELSE r

\* A Shannon value H is [scaled |-> v, by |-> t], meaning H = v / t with v a
\* logarithm vector.  -sum p ln p with p = c / t equals
\* (t ln t - sum c ln c) / t.
ShannonIsZero(sh) == sh.scaled = VecZero

\* H = ln(k)
ShannonIsLn(sh, k) == sh.scaled = LnTimes(sh.by, k)

RECURSIVE SumSquares(_)
SumSquares(cs) == IF cs = << >> THEN 0 ELSE Head(cs) * Head(cs) + SumSquares(Tail(cs))

\* line 40 / 45: count / total raises ZeroDivisionError for the first value
\* when total = 0
ProportionsRaise(h) == Len(h) > 0 /\ Total(h) = 0

\* lines 38-41, when the proportions do not raise
get_shannon_index(h) ==
    IF Len(h) = 0 THEN [scaled |-> VecZero, by |-> 1]
    ELSE [scaled |-> VecSub(LnTimes(Total(h), Total(h)), SumCLnC(Values(h))), by |-> Total(h)]

\* lines 43-46, when the proportions do not raise
get_simpson_index(h) ==
    IF Len(h) = 0 THEN Rat(1, 1)
    ELSE Rat(Total(h) * Total(h) - SumSquares(Values(h)), Total(h) * Total(h))

\* line 49
NumberOfClasses(h) == Len(h)

\* lines 48-53: shannon / ln(number_of_classes), or the sentinel 0
get_evenness_index(h) ==
    IF NumberOfClasses(h) > 1
      THEN [sentinel |-> FALSE, shannon |-> get_shannon_index(h), classes |-> NumberOfClasses(h)]
      ELSE [sentinel |-> TRUE, shannon |-> get_shannon_index(h), classes |-> 1]

EvennessIsZero(e) == e.sentinel \/ ShannonIsZero(e.shannon)

EvennessIsOne(e) == ~e.sentinel /\ ShannonIsLn(e.shannon, e.classes)

RECURSIVE SumGet(_, _)
\* sum(counts.get(str(cls), 0) for cls in classes)
SumGet(h, classes) ==
    IF classes = << >> THEN 0
    ELSE GetCount(h, Str(Head(classes))) + SumGet(h, Tail(classes))

\* lines 55-59
get_natural_habitat_fraction(h) ==
    IF Total(h) > 0 THEN Rat(SumGet(h, natural_classes), Total(h)) ELSE Rat(0, 1)

\* lines 61-65
get_anthropogenic_habitat_fraction(h) ==
    IF Total(h) > 0 THEN Rat(SumGet(h, anthropogenic_classes), Total(h)) ELSE Rat(0, 1)

\* Insert e into a list sorted by count descending, after the entries whose
\* count is >= e.count (sorted(..., reverse=True) is stable).
RECURSIVE InsertDescTiesFirst(_, _)
\* An insertion that puts e before the entries of equal count.
InsertDescTiesFirst(sorted, e) ==
    IF sorted = << >> THEN <<e>>
    ELSE IF Head(sorted).count > e.count THEN <<Head(sorted)>> \o InsertDescTiesFirst(Tail(sorted), e)
    ELSE <<e>> \o sorted

RECURSIVE InsertDesc(_, _)
InsertDesc(sorted, e) ==
    IF sorted = << >> THEN <<e>>
    ELSE IF Head(sorted).count >= e.count THEN <<Head(sorted)>> \o InsertDesc(Tail(sorted), e)
    ELSE <<e>> \o sorted

RECURSIVE SortedDesc(_)
\* sorted(counts.items(), key=lambda x: x[1], reverse=True)
SortedDesc(h) ==
    IF h = << >> THEN << >>
    ELSE InsertDesc(SortedDesc(SubSeq(h, 1, Len(h) - 1)), h[Len(h)])

\* line 68
Top5(h) == Slice(SortedDesc(h), 5)

\* line 70: landcover_classes[int(cls)] raises KeyError for a code outside
\* the legend
LabelRaises(h) == \E e \in Range(Top5(h)) : IntOf(e.cls) \notin landcover_classes

\* lines 67-70, when nothing raises; the label is kept as the legend code
get_top_5_landcover(h) ==
    [k \in 1..Len(Top5(h)) |->
        [label |-> IntOf(Top5(h)[k].cls), count |-> Top5(h)[k].count,
         pct |-> Rat(Top5(h)[k].count * 100, Total(h))]]

Pending == [status |-> "pending"]

\* lines 90-97: the dict of get_landcover_metrics, or the exception that
\* leaves it
get_landcover_metrics(h) ==
    IF ProportionsRaise(h) THEN [status |-> "ZeroDivisionError"]
    ELSE IF LabelRaises(h) THEN [status |-> "KeyError"]
    ELSE [status |-> "ok",
          shannon_index |-> get_shannon_index(h),
          simpson_index |-> get_simpson_index(h),
          evenness_index |-> get_evenness_index(h),
          natural_habitat_fraction |-> get_natural_habitat_fraction(h),
          anthropogenic_habitat_fraction |-> get_anthropogenic_habitat_fraction(h),
          top_5_landcover |-> get_top_5_landcover(h)]

LcIdle == counts = << >> /\ lc_metrics = Pending

LcInit == counts \in Histograms /\ lc_metrics = Pending

\* get_landcover_metrics on the histogram the service returned (line 88)
GetLandcoverMetrics ==
    /\ lc_metrics = Pending
    /\ lc_metrics' = get_landcover_metrics(counts)
    /\ UNCHANGED <<counts, sample_vars, run_vars, bio_vars, ee_vars, px_vars>>

LcNext == GetLandcoverMetrics

\* ===========================================================================
\* get_biodiversity_indices  (metrics/gbif_metrics.py, lines 82-132)
\*
\* An occurrence record is a dict; only the presence and the value of its
\* 'species' key matter.
\* ===========================================================================

SpeciesNames == {"A", "B", "C"}

\* A record without a species identifier.
RecNoSpecies == [k \in {"key"} |-> "x"]

\* A record of species sp.
RecSpecies(sp) == [k \in {"key", "species"} |-> IF k = "species" THEN sp ELSE "x"]

OccurrenceRecords == {RecNoSpecies} \cup {RecSpecies(sp) : sp \in SpeciesNames}

\* Longest occurrence sample enumerated.
MaxSample == 4

OccurrenceSamples == UNION {[1..n -> OccurrenceRecords] : n \in 0..MaxSample}

RECURSIVE SpeciesList(_)
\* line 98: [occ['species'] for occ in occurrences if 'species' in occ]
SpeciesList(occs) ==
    IF occs = << >> THEN << >>
    ELSE IF "species" \in DOMAIN Head(occs)
           THEN <<Head(occs)["species"]>> \o SpeciesList(Tail(occs))
           ELSE SpeciesList(Tail(occs))

RECURSIVE FirstSeen(_)
\* keys of Counter(species_list), in insertion order
FirstSeen(sl) ==
    IF sl = << >> THEN << >>
    ELSE LET r == FirstSeen(SubSeq(sl, 1, Len(sl) - 1))
         IN  IF sl[Len(sl)] \in Range(r) THEN r ELSE Append(r, sl[Len(sl)])

\* line 110: Counter(species_list).values()
SpeciesCounts(sl) ==
    [k \in 1..Len(FirstSeen(sl)) |-> Cardinality({j \in 1..Len(sl) : sl[j] = FirstSeen(sl)[k]})]

RECURSIVE MaxSeq(_)
\* max(values) of a non-empty list
MaxSeq(s) == IF Len(s) = 1 THEN s[1] ELSE Max(Head(s), MaxSeq(Tail(s)))

\* A richness that counts the species-bearing records.
RichnessAsRecords(sl) == Len(sl)

\* line 112: S = len(species_counts)
Richness(sl) == Len(SpeciesCounts(sl))

\* lines 101-107
ZeroIndices ==
    [status |-> "ok",
     species_richness |-> 0,
     shannon_index |-> [scaled |-> VecZero, by |-> 1],
     simpson_index |-> Rat(0, 1),
     evenness |-> [sentinel |-> TRUE, shannon |-> [scaled |-> VecZero, by |-> 1], classes |-> 1],
     berger_parker_dominance |-> Rat(0, 1)]

\* lines 110-132: the indices of a non-empty species list
IndicesOf(sl) ==
    LET cs == SpeciesCounts(sl)
        N == SumSeq(cs)
        S == Richness(sl)
        shannon == [scaled |-> VecSub(LnTimes(N, N), SumCLnC(cs)), by |-> N]
    IN  [status |-> "ok",
         species_richness |-> S,
         shannon_index |-> shannon,
         simpson_index |-> Rat(N * N - SumSquares(cs), N * N),
         evenness |-> IF S > 1 THEN [sentinel |-> FALSE, shannon |-> shannon, classes |-> S]
                               ELSE [sentinel |-> TRUE, shannon |-> shannon, classes |-> 1],
         berger_parker_dominance |-> Rat(MaxSeq(cs), N)]

\* The function without the guard of lines 100-107: max() of an empty
\* sequence raises ValueError.
get_biodiversity_indices_unguarded(occs) ==
    IF SpeciesList(occs) = << >> THEN [status |-> "ValueError"] ELSE IndicesOf(SpeciesList(occs))

\* lines 82-132
get_biodiversity_indices(occs) ==
    IF SpeciesList(occs) = << >> THEN ZeroIndices ELSE IndicesOf(SpeciesList(occs))

BioIdle == bio_sample = << >> /\ bio_metrics = Pending

BioInit == bio_sample \in OccurrenceSamples /\ bio_metrics = Pending

\* get_biodiversity_indices(samples) (streamlit_app.py line 320)
GetBiodiversityIndices ==
    /\ bio_metrics = Pending
    /\ bio_metrics' = get_biodiversity_indices(bio_sample)
    /\ UNCHANGED <<bio_sample, sample_vars, run_vars, lc_vars, ee_vars, px_vars>>

BioNext == GetBiodiversityIndices

\* ===========================================================================
\* init_ee / is_ee_initialized  (metrics/gee_utils.py, lines 13-37)
\* ===========================================================================

\* Most calls made to the module in one process.
MaxCalls == 5

\* An init_ee that initialises on every call.
ShouldInitializeAlways(flag) == TRUE

\* line 26: if not _initialized
ShouldInitialize(flag) == ~flag

\* line 13
EeInit == _initialized = FALSE /\ ee_log = << >>

\* init_ee: ee.Initialize(credentials) returns, the flag is set (lines 26-28)
InitEeOk ==
    /\ Len(ee_log) < MaxCalls
    /\ ShouldInitialize(_initialized)
    /\ _initialized' = TRUE
    /\ ee_log' = Append(ee_log, "initialized")
    /\ UNCHANGED <<sample_vars, run_vars, lc_vars, bio_vars, px_vars>>

\* init_ee: ee.Initialize(credentials) raises, line 28 is not reached
InitEeRaise ==
    /\ Len(ee_log) < MaxCalls
    /\ ShouldInitialize(_initialized)
    /\ ee_log' = Append(ee_log, "raised")
    /\ UNCHANGED <<_initialized, sample_vars, run_vars, lc_vars, bio_vars, px_vars>>

\* init_ee with the flag set: nothing is done (line 26)
InitEeSkip ==
    /\ Len(ee_log) < MaxCalls
    /\ ~ShouldInitialize(_initialized)
    /\ ee_log' = Append(ee_log, "skipped")
    /\ UNCHANGED <<_initialized, sample_vars, run_vars, lc_vars, bio_vars, px_vars>>

\* is_ee_initialized(): returns the flag (line 37)
IsEeInitialized ==
    /\ Len(ee_log) < MaxCalls
    /\ ee_log' = Append(ee_log, IF _initialized THEN "is_true" ELSE "is_false")
    /\ UNCHANGED <<_initialized, sample_vars, run_vars, lc_vars, bio_vars, px_vars>>

EeNext == InitEeOk \/ InitEeRaise \/ InitEeSkip \/ IsEeInitialized

\* ===========================================================================
\* get_ndvi_rating_map: the rating of one pixel
\* (metrics/landcover_metrics.py, lines 124-176)
\* ===========================================================================

\* Largest NDVI / percentile value enumerated (NDVI on an integer scale).
MaxNdvi == 3

NdviValues == 0..MaxNdvi

Pixels == [ndvi : NdviValues, p25 : NdviValues, p35 : NdviValues, p70 : NdviValues,
           p90 : NdviValues, forest : BOOLEAN]

\* A cascade whose first test is strict.
NdviRatingStrict(ndvi, p25, p35, p70, p90) ==
    IF ndvi > p90 THEN 5
    ELSE IF ndvi >= p70 THEN 4
    ELSE IF ndvi >= p35 THEN 3
    ELSE IF ndvi >= p25 THEN 2
    ELSE 1

\* lines 160-172: the expression 'ndvi >= p90 ? 5 : ... : 1'
NdviRating(ndvi, p25, p35, p70, p90) ==
    IF ndvi >= p90 THEN 5
    ELSE IF ndvi >= p70 THEN 4
    ELSE IF ndvi >= p35 THEN 3
    ELSE IF ndvi >= p25 THEN 2
    ELSE 1

NotRated == [status |-> "pending", rating |-> 0]

\* lines 160-175: the rating, masked outside the forest class (line 127)
RatedPixel(p) ==
    IF p.forest THEN [status |-> "rated", rating |-> NdviRating(p.ndvi, p.p25, p.p35, p.p70, p.p90)]
    ELSE [status |-> "masked", rating |-> 0]

PxIdle == px = [ndvi |-> 0, p25 |-> 0, p35 |-> 0, p70 |-> 0, p90 |-> 0, forest |-> FALSE] /\ px_rating = NotRated

PxInit == px \in Pixels /\ px_rating = NotRated

\* The service evaluates the rating expression on the pixel.
RatePixel ==
    /\ px_rating = NotRated
    /\ px_rating' = RatedPixel(px)
    /\ UNCHANGED <<px, sample_vars, run_vars, lc_vars, bio_vars, ee_vars>>

PxNext == RatePixel

\* ===========================================================================
\* Specifications
\* ===========================================================================

InitSample == SampleInit /\ RunIdle /\ LcIdle /\ BioIdle /\ EeInit /\ PxIdle

SpecSample == InitSample /\ [][SampleNext]_vars

InitRun == RunInit /\ SampleIdle /\ LcIdle /\ BioIdle /\ EeInit /\ PxIdle

SpecRun == InitRun /\ [][RunNext]_vars

InitLandcover == LcInit /\ SampleIdle /\ RunIdle /\ BioIdle /\ EeInit /\ PxIdle

SpecLandcover == InitLandcover /\ [][LcNext]_vars

InitBio == BioInit /\ SampleIdle /\ RunIdle /\ LcIdle /\ EeInit /\ PxIdle

SpecBio == InitBio /\ [][BioNext]_vars

InitEe == EeInit /\ SampleIdle /\ RunIdle /\ LcIdle /\ BioIdle /\ PxIdle

SpecEe == InitEe /\ [][EeNext]_vars

InitPx == PxInit /\ SampleIdle /\ RunIdle /\ LcIdle /\ BioIdle /\ EeInit

SpecPx == InitPx /\ [][PxNext]_vars

\* ===========================================================================
\* Claims on get_gbif_sample (SpecSample)
\* ===========================================================================

\* Records accumulated when request number k is sent.
AccumulatedBefore(k) == SumSeq(SubSeq(page_lens, 1, k - 1))

\* C1: every page request is sent while the accumulated record count is
\* still below n_records and no earlier page was shorter than the page size
\* (so no page is requested for n_records = 0, nor after an exact multiple
\* of the page size has been accumulated).
C1_NoRequestPastCap ==
    \A k \in 1..Len(requests) :
        /\ AccumulatedBefore(k) < n_records
        /\ \A j \in 1..(k - 1) : page_lens[j] = per_page

\* C2: the returned sample has at most n_records records; the requests go
\* to offsets 0, 300, 600, ... in order and every page before the last one
\* fetched holds exactly per_page records, all of them accumulated.
C2_SampleBounded ==
    /\ spc = "returned" => Len(sample) <= n_records
    /\ \A k \in 1..Len(requests) : requests[k] = (k - 1) * per_page
    /\ \A k \in 1..Len(page_lens) : k < Len(requests) => page_lens[k] = per_page
    /\ Len(occurrences) = SumSeq(page_lens)

\* C2 witness: two pages fetched, the second one short, more records
\* accumulated than asked for, and the sample cut to n_records.
C2_Witness ==
    /\ spc = "returned"
    /\ Len(requests) = 2
    /\ page_lens[2] < per_page
    /\ Len(occurrences) > n_records
    /\ Len(sample) = n_records

\* ===========================================================================
\* Claims on the Run Analysis handler (SpecRun)
\* ===========================================================================

Oversized == AreaOver(Area(geojson_input), MAX_AOI_KM2)

\* s is the square root of sq, up to the rounding of a buffer radius to
\* whole cells (the side is twice the radius).
SideIsSqrt(s, sq) == (s - 2) * (s - 2) < sq /\ sq < (s + 2) * (s + 2)

\* C3 as stated: after the area check an oversized AOI has become a square
\* centred on the original centroid with side 2 * sqrt(max_km2) km, and no
\* error was raised.
C3_SideTwiceSqrt ==
    (pc = "metrics" /\ Oversized) =>
        /\ IsSquare(aoi_ee)
        /\ Centroid(aoi_ee) = Centroid(geojson_input)
        /\ SideIsSqrt(Width(aoi_ee), 4 * MAX_AOI_KM2 * CellsPerKm2)
        /\ failed_at = "none"

\* C3 amended: after the area check an oversized AOI has become a square
\* centred on the original centroid with side sqrt(max_km2) km (its area is
\* the ceiling), whatever the original shape, and no error was raised.
C3_SideSqrt ==
    (pc = "metrics" /\ Oversized) =>
        /\ IsSquare(aoi_ee)
        /\ Centroid(aoi_ee) = Centroid(geojson_input)
        /\ SideIsSqrt(Width(aoi_ee), MAX_AOI_KM2 * CellsPerKm2)
        /\ failed_at = "none"

\* C3 witness: an oversized, non-square AOI away from the origin has been
\* replaced.
C3_Witness ==
    /\ pc = "metrics"
    /\ Oversized
    /\ ~IsSquare(geojson_input)
    /\ Centroid(geojson_input) # <<0, 0>>
    /\ aoi_ee # geojson_input

\* C4: the area check applied to its own output changes nothing, for AOIs
\* under and over the ceiling.
C4_Idempotent == pc = "metrics" => EnforceAreaLimit(aoi_ee) = aoi_ee

\* C4 witness: the area check has substituted an oversized AOI.
C4_Witness == pc = "metrics" /\ Oversized /\ aoi_ee = EnforceAreaLimit(geojson_input) /\ aoi_ee # geojson_input

\* C5: every displayed metric computation of a run (land cover, occurrence
\* count, occurrence sample, rating histogram) is given the AOI shown on the
\* map, the AOI after the area check.
C5_MetricsOnDisplayedAOI ==
    \A g \in {"landcover", "occ_count", "occ_sample", "rating"} :
        used_aoi[g] # NoAOI => (used_aoi[g] = map_aoi /\ used_aoi[g] = EnforceAreaLimit(geojson_input))

\* C6: when the computation of one metric group raises, the other metric
\* groups are still displayed by the end of the run.
C6_FaultIsolation ==
    (pc = "error" /\ failed_at \in MetricGroups) => (MetricGroups \ {failed_at}) \subseteq displayed

\* C7: a rating histogram whose total pixel count is 0 gives degraded
\* percentage 0 and degraded hectares 0, displayed without an error.
C7_ZeroTotal ==
    (ndvi_rating # NoHist /\ TotalPix(ndvi_rating) = 0) =>
        /\ failed_at = "none"
        /\ "rating" \in displayed
        /\ RatEq(rating_out.bad_vegetation_perc, Rat(0, 1))
        /\ RatEq(rating_out.bad_vegetation_ha, Rat(0, 1))

\* Pixels of the ratings in K, a missing rating counting 0.
PixelsOf(h, K) == SumValues([k \in K \cap DOMAIN h |-> h[k]])

\* C8: for a rating histogram with total > 0, the degraded ratings {1,2}
\* and the good ratings {3,4,5} partition the total, a missing rating
\* counting 0; the degraded and good percentages, and the five per-rating
\* percentages, sum to 100; degraded hectares are degraded pixels * scale^2
\* / 10000; the scenario at 20 m gives 20 % and 0.8 ha.
C8_Partition ==
    pc = "done" =>
        LET h == ndvi_rating
            r == rating_out
        IN  /\ r.total_pix > 0
            /\ r.bad_vegetation = PixelsOf(h, {"1", "2"})
            /\ r.good_vegetation = PixelsOf(h, {"3", "4", "5"})
            /\ r.bad_vegetation + r.good_vegetation = r.total_pix
            /\ RatEq(RatAdd(r.bad_vegetation_perc, Rat(r.good_vegetation * 100, r.total_pix)), Rat(100, 1))
            /\ RatEq(Rat(100 * (PixelsOf(h, {"1"}) + PixelsOf(h, {"2"}) + PixelsOf(h, {"3"})
                                + PixelsOf(h, {"4"}) + PixelsOf(h, {"5"})), r.total_pix), Rat(100, 1))
            /\ RatEq(r.bad_vegetation_ha, Rat(PixelsOf(h, {"1", "2"}) * scale_adjusted * scale_adjusted, 10000))
            /\ (h = ScenarioRatings /\ scale_adjusted = 20) =>
                   /\ RatEq(r.bad_vegetation_perc, Rat(20, 1))
                   /\ RatEq(r.bad_vegetation_ha, Rat(8, 10))

\* C8 witness: a summary was displayed for a histogram that lacks rating 2
\* and has both degraded and good pixels.
C8_Witness ==
    /\ pc = "done"
    /\ "2" \notin DOMAIN ndvi_rating
    /\ rating_out.bad_vegetation > 0
    /\ rating_out.good_vegetation > 0

\* ===========================================================================
\* Claims on the land-cover indices (SpecLandcover)
\* ===========================================================================

\* natural + anthropogenic fraction of the histogram
HabitatSum(h) == RatAdd(get_natural_habitat_fraction(h), get_anthropogenic_habitat_fraction(h))

RatLeq1(a) == a.num <= a.den

RatIs1(a) == a.num = a.den

\* C9 as stated: for a histogram with total > 0 the two fractions sum to at
\* most 1, with equality exactly when every class keyed in the histogram is
\* in the natural or the anthropogenic set.
C9_EqualityIffAllKeysKnown ==
    (lc_metrics # Pending /\ Total(counts) > 0) =>
        /\ RatLeq1(HabitatSum(counts))
        /\ RatIs1(HabitatSum(counts)) <=> \A e \in Range(counts) : IntOf(e.cls) \in {10, 20, 30, 90, 95, 100, 40, 50, 60, 70, 80}

\* C9 amended: for a histogram with total > 0 the two fractions sum to at
\* most 1, with equality exactly when every class with a count > 0 is in
\* the natural or the anthropogenic set; {10:700, 40:300} gives 0.7 and 0.3.
C9_EqualityIffAllPresentKnown ==
    (lc_metrics # Pending /\ Total(counts) > 0) =>
        /\ RatLeq1(HabitatSum(counts))
        /\ RatIs1(HabitatSum(counts)) <=>
               \A e \in Range(counts) : e.count > 0 => IntOf(e.cls) \in {10, 20, 30, 90, 95, 100, 40, 50, 60, 70, 80}
        /\ counts = ScenarioCounts =>
               /\ RatEq(get_natural_habitat_fraction(counts), Rat(7, 10))
               /\ RatEq(get_anthropogenic_habitat_fraction(counts), Rat(3, 10))

\* C9 witness: metrics were computed for a histogram holding natural and
\* anthropogenic pixels and pixels of a class outside both sets.
C9_Witness ==
    /\ lc_metrics # Pending
    /\ GetCount(counts, "20") > 0
    /\ GetCount(counts, "40") > 0
    /\ GetCount(counts, "15") > 0

ClassesPresent(h) == {k \in 1..Len(h) : h[k].count > 0}

\* C10: for a histogram with total > 0, a single class with count > 0 gives
\* Shannon 0, Simpson 0 and evenness 0, and K >= 2 classes with count > 0
\* and equal counts give evenness 1, whatever zero-count entries the
\* histogram also holds.
C10_EvennessOverPresentClasses ==
    (lc_metrics # Pending /\ Total(counts) > 0) =>
        LET present == ClassesPresent(counts)
            e == get_evenness_index(counts)
        IN  /\ Cardinality(present) = 1 =>
                   /\ ShannonIsZero(get_shannon_index(counts))
                   /\ RatEq(get_simpson_index(counts), Rat(0, 1))
                   /\ EvennessIsZero(e)
            /\ (Cardinality(present) >= 2 /\ \A j, k \in present : counts[j].count = counts[k].count) =>
                   EvennessIsOne(e)

\* C11: a histogram holding a key outside the 11-code legend with a count
\* > 0 makes get_landcover_metrics fail; it never returns metrics for it.
C11_UnknownCodeSurfaced ==
    (lc_metrics # Pending /\ \E e \in Range(counts) :
         e.count > 0 /\ IntOf(e.cls) \notin {10, 20, 30, 40, 50, 60, 70, 80, 90, 95, 100})
        => lc_metrics.status # "ok"

\* Position in the histogram of the entry whose class code is `label`.
PositionOf(h, label) == CHOOSE k \in 1..Len(h) : IntOf(h[k].cls) = label

\* C12: the returned top classes are min(5, number of entries) tuples, each
\* an entry of the histogram, ordered by count descending, entries of equal
\* count in the histogram's iteration order; every entry left out has a
\* count <= every entry returned.
C12_Top5Ordered ==
    lc_metrics.status = "ok" =>
        LET t == lc_metrics.top_5_landcover
            pos == [k \in 1..Len(t) |-> PositionOf(counts, t[k].label)]
        IN  /\ Len(t) = Min(5, Len(counts))
            /\ \A k \in 1..Len(t) : t[k].count = counts[pos[k]].count
            /\ \A j, k \in 1..Len(t) : j # k => pos[j] # pos[k]
            /\ \A k \in 1..(Len(t) - 1) :
                   \/ t[k].count > t[k + 1].count
                   \/ t[k].count = t[k + 1].count /\ pos[k] < pos[k + 1]
            /\ \A m \in 1..Len(counts) :
                   m \notin Range(pos) => \A k \in 1..Len(t) : counts[m].count <= t[k].count

\* C12 witness: six entries in the reverse key order, one left out, and two
\* returned entries of equal count.
C12_Witness ==
    /\ lc_metrics.status = "ok"
    /\ Len(counts) = 6
    /\ counts[1].cls = "80"
    /\ Len(lc_metrics.top_5_landcover) = 5
    /\ \E k \in 1..4 : lc_metrics.top_5_landcover[k].count = lc_metrics.top_5_landcover[k + 1].count

\* ===========================================================================
\* Further claims on get_gbif_sample (SpecSample) and the handler (SpecRun)
\* ===========================================================================

\* C16: once a page request has failed the function is left by the
\* exception: no sample (not even a partial one) is returned, the failed
\* request is the last one sent, and no offset is requested twice.
C16_FailureAborts ==
    Len(requests) > Len(page_lens) =>
        /\ spc = "failed"
        /\ sample = << >>
        /\ Len(requests) = Len(page_lens) + 1
        /\ \A j, k \in 1..Len(requests) : j < k => requests[j] < requests[k]
        /\ ~ENABLED SampleNext

\* C16 witness: the second page request failed after a full first page.
C16_Witness ==
    /\ spc = "failed"
    /\ Len(requests) = 2
    /\ Len(occurrences) = per_page
    /\ sample = << >>

\* The areas of the AOIs that can be drawn, in cells^2.
DrawnAreas == {Area(a) : a \in DrawnAOIs}

\* C18: the scale chosen for the rating histogram is one of 10, 20, 30 and
\* 100 m, and no AOI of smaller or equal area gets a larger scale.
C18_ScaleMonotone ==
    scale_adjusted # 0 =>
        /\ scale_adjusted \in {10, 20, 30, 100}
        /\ scale_adjusted = ScaleFor(area_km2)
        /\ \A a \in DrawnAreas : a <= area_km2 => ScaleFor(a) <= scale_adjusted
        /\ \A a \in DrawnAreas : a >= area_km2 => ScaleFor(a) >= scale_adjusted

\* C18 witness: a scale of 30 m was chosen, and smaller AOIs exist at 10 and
\* 20 m and a larger one at 100 m.
C18_Witness ==
    /\ scale_adjusted = 30
    /\ \E a \in DrawnAreas : a < area_km2 /\ ScaleFor(a) = 20
    /\ \E a \in DrawnAreas : a < area_km2 /\ ScaleFor(a) = 10
    /\ \E a \in DrawnAreas : a > area_km2 /\ ScaleFor(a) = 100

\* ===========================================================================
\* Claims on get_biodiversity_indices (SpecBio)
\* ===========================================================================

\* The species-bearing records of a sample.
SpeciesBearing(occs) == {k \in 1..Len(occs) : "species" \in DOMAIN occs[k]}

\* C13: a sample with no species-bearing record (the empty sample included)
\* gets richness, Shannon, Simpson, evenness and Berger-Parker all 0, and
\* no error is raised.
C13_NoSpeciesAllZero ==
    (bio_metrics # Pending /\ SpeciesBearing(bio_sample) = {}) =>
        /\ bio_metrics.status = "ok"
        /\ bio_metrics.species_richness = 0
        /\ ShannonIsZero(bio_metrics.shannon_index)
        /\ RatEq(bio_metrics.simpson_index, Rat(0, 1))
        /\ EvennessIsZero(bio_metrics.evenness)
        /\ RatEq(bio_metrics.berger_parker_dominance, Rat(0, 1))

\* C13 witness: indices were returned for a non-empty sample none of whose
\* records carries a species.
C13_Witness ==
    /\ bio_metrics # Pending
    /\ Len(bio_sample) >= 2
    /\ SpeciesBearing(bio_sample) = {}

RECURSIVE Pow(_, _)
Pow(b, e) == IF e = 0 THEN 1 ELSE b * Pow(b, e - 1)

RECURSIVE VecProduct(_, _, _)
\* product of p ^ (sign * v[p]) over the primes p of ps whose exponent has
\* the given sign
VecProduct(v, ps, sign) ==
    IF ps = {} THEN 1
    ELSE LET p == CHOOSE q \in ps : TRUE
         IN  (IF sign * v[p] > 0 THEN Pow(p, sign * v[p]) ELSE 1) * VecProduct(v, ps \ {p}, sign)

\* H >= 0, for H = ln(num / den) / by
ShannonGeq0(sh) == VecProduct(sh.scaled, Primes, 1) >= VecProduct(sh.scaled, Primes, -1)

\* H <= ln(k), that is num <= k ^ by * den
ShannonLeqLn(sh, k) ==
    VecProduct(sh.scaled, Primes, 1) <= Pow(k, sh.by) * VecProduct(sh.scaled, Primes, -1)

\* The number of records of the commonest species.
MaxSpeciesCount(occs) ==
    LET n(sp) == Cardinality({k \in SpeciesBearing(occs) : occs[k]["species"] = sp})
    IN  CHOOSE m \in 0..Len(occs) :
            /\ \A sp \in SpeciesNames : n(sp) <= m
            /\ m > 0 => \E sp \in SpeciesNames : n(sp) = m

\* C14: every returned record is within the data-model ranges: richness is
\* the number of distinct species among the species-bearing records,
\* Simpson is in [0,1), evenness is in [0,1] and 0 when richness <= 1, and
\* Berger-Parker is max species count / species-bearing records, in (0,1].
C14_IndexRanges ==
    bio_metrics # Pending =>
        LET m == bio_metrics
            bearing == SpeciesBearing(bio_sample)
            bp == m.berger_parker_dominance
        IN  /\ m.status = "ok"
            /\ m.species_richness \in Nat
            /\ m.species_richness = Cardinality({bio_sample[k]["species"] : k \in bearing})
            /\ m.simpson_index.num >= 0
            /\ m.simpson_index.num < m.simpson_index.den
            /\ m.evenness.sentinel \/ ShannonGeq0(m.evenness.shannon)
            /\ m.evenness.sentinel \/ ShannonLeqLn(m.evenness.shannon, m.evenness.classes)
            /\ m.species_richness <= 1 => EvennessIsZero(m.evenness)
            /\ bearing # {} => RatEq(bp, Rat(MaxSpeciesCount(bio_sample), Cardinality(bearing)))
            /\ bp.num > 0
            /\ bp.num <= bp.den

\* ===========================================================================
\* Claims on init_ee / is_ee_initialized (SpecEe)
\* ===========================================================================

\* The calls of the log at which ee.Initialize completed.
Completed == {k \in 1..Len(ee_log) : ee_log[k] = "initialized"}

\* C15: ee.Initialize completes at most once and is not attempted again
\* after it has completed; a call whose initialisation raised leaves the
\* flag False; is_ee_initialized() answers True exactly when an earlier
\* init_ee call completed the initialisation.
C15_InitOnce ==
    /\ Cardinality(Completed) <= 1
    /\ \A j \in Completed : \A k \in (j + 1)..Len(ee_log) : ee_log[k] \notin {"initialized", "raised"}
    /\ _initialized <=> Completed # {}
    /\ \A k \in 1..Len(ee_log) :
           /\ ee_log[k] = "is_true" => \E j \in Completed : j < k
           /\ ee_log[k] = "is_false" => ~\E j \in Completed : j < k

\* C15 witness: an initialisation that raised, a query answering False, a
\* completed initialisation, a further init_ee call and a query answering
\* True.
C15_Witness ==
    ee_log = <<"raised", "is_false", "initialized", "skipped", "is_true">>

\* ===========================================================================
\* Claims on the rating rule of get_ndvi_rating_map (SpecPx)
\* ===========================================================================

\* The rating of the pixel's percentiles at NDVI n.
RatingAt(n) == NdviRating(n, px.p25, px.p35, px.p70, px.p90)

\* C17: a rated pixel carries exactly the rating of the cascade
\* ndvi>=p90 -> 5, else ndvi>=p70 -> 4, else ndvi>=p35 -> 3, else
\* ndvi>=p25 -> 2, else 1, a value of 1..5, whatever the four thresholds,
\* and for fixed thresholds the rating is non-decreasing in the NDVI.
C17_RatingTotalMonotone ==
    px_rating.status = "rated" =>
        LET r == px_rating.rating
        IN  /\ r \in 1..5
            /\ r = 5 <=> px.ndvi >= px.p90
            /\ r = 4 <=> (px.ndvi < px.p90 /\ px.ndvi >= px.p70)
            /\ r = 3 <=> (px.ndvi < px.p90 /\ px.ndvi < px.p70 /\ px.ndvi >= px.p35)
            /\ r = 2 <=> (px.ndvi < px.p90 /\ px.ndvi < px.p70 /\ px.ndvi < px.p35 /\ px.ndvi >= px.p25)
            /\ r = 1 <=> (px.ndvi < px.p90 /\ px.ndvi < px.p70 /\ px.ndvi < px.p35 /\ px.ndvi < px.p25)
            /\ \A n \in NdviValues : n <= px.ndvi => RatingAt(n) <= r
            /\ \A n \in NdviValues : n >= px.ndvi => RatingAt(n) >= r

\* C17 witness: a forest pixel rated 5 whose NDVI equals p90, with the
\* thresholds out of order and lower NDVI values rated lower.
C17_Witness ==
    /\ px_rating.status = "rated"
    /\ px_rating.rating = 5
    /\ px.ndvi = px.p90
    /\ px.p70 > px.p90
    /\ \E n \in NdviValues : n < px.ndvi /\ RatingAt(n) < 5
====
